---------------------------- MODULE Spec2Model ----------------------------
(***************************************************************************)
(* Model of app/main.py: the audio-survey relay.                           *)
(*   POST /stt          validate upload, fetch template, transcribe,       *)
(*                      extract answers, sanitize, build payload, submit   *)
(*   POST /whisper-test validate upload, transcribe                        *)
(*                                                                         *)
(* JSON values are tagged records [t |-> tag, v |-> value]; a key that is  *)
(* missing from a dict has tag "absent", a JSON null has tag "null".       *)
(* Texts are sequences of one-character strings so that strip() and        *)
(* lower() are computed, not assumed.                                      *)
(***************************************************************************)
EXTENDS Integers, Sequences, FiniteSets, TLC

\* ------------------------------------------------------------------ bounds
MaxTextLen == 2      \* longest text (answer text, question text)
MaxIds     == 2      \* longest opciones_ids list of a raw answer
MaxAnswers == 2      \* longest list of raw answers

\* ------------------------------------------------------------- JSON values
AbsS == [t |-> "absent", v |-> ""]
NulS == [t |-> "null",   v |-> ""]
Str(s) == [t |-> "str", v |-> s]

AbsT == [t |-> "absent", v |-> <<>>]
NulT == [t |-> "null",   v |-> <<>>]
Txt(s) == [t |-> "str", v |-> s]

AbsN == [t |-> "absent", v |-> 0]
NulN == [t |-> "null",   v |-> 0]
Num(n) == [t |-> "num", v |-> n]
EmptyStrN == [t |-> "str", v |-> 0]      \* the JSON string "" in a number field

AbsL == [t |-> "absent", v |-> <<>>]
NulL == [t |-> "null",   v |-> <<>>]
Lst(l) == [t |-> "list", v |-> l]

\* dict.get(k) is None: the key is missing or holds null
IsNone(x) == x.t \in {"absent", "null"}

\* Python truthiness of dict.get(k) for a string, a text and a list
TruthyS(x) == x.t = "str" /\ x.v # ""
TruthyT(x) == x.t = "str" /\ x.v # <<>>
TruthyL(x) == x.t = "list" /\ x.v # <<>>

\* ------------------------------------------------------------------- texts
Chars == {"a", "A", " "}

\* str.lower(), one character
LowerChar(c) == IF c = "A" THEN "a" ELSE c

\* str.lower()
Lower(s) == [i \in 1..Len(s) |-> LowerChar(s[i])]

RECURSIVE LStrip(_)
LStrip(s) == IF s # <<>> /\ Head(s) = " " THEN LStrip(Tail(s)) ELSE s

RECURSIVE RStrip(_)
RStrip(s) == IF s # <<>> /\ s[Len(s)] = " " THEN RStrip(SubSeq(s, 1, Len(s) - 1)) ELSE s

\* str.strip()
Strip(s) == RStrip(LStrip(s))

\* all sequences over S of length 0..n
SeqsUpTo(S, n) == UNION {[1..k -> S] : k \in 0..n}

\* --------------------------------------------------------------- template
\* A question of the template: id (string), texto (text), tipo_pregunta_id,
\* opciones (sequence of [id |-> string]).
\* mapa = {p["id"]: p for p in plantilla["preguntas"]}; preg = mapa.get(qid) or {}
\* (a later question with the same id replaces an earlier one); the empty
\* dict answers preg.get("texto", "") with "" and preg.get("opciones", []) with [].
EmptyPreg == [id |-> "", texto |-> <<>>, tipo_pregunta_id |-> 0, opciones |-> <<>>]

MapaHas(plant, qid) ==
    qid.t = "str" /\ \E i \in 1..Len(plant.preguntas) : plant.preguntas[i].id = qid.v

MapaGet(plant, qid) ==
    IF ~MapaHas(plant, qid) THEN EmptyPreg
    ELSE LET idx == {i \in 1..Len(plant.preguntas) : plant.preguntas[i].id = qid.v}
         IN  plant.preguntas[CHOOSE j \in idx : \A k \in idx : k <= j]

\* valid = {o["id"] for o in preg.get("opciones", [])}
ValidIds(preg) == {preg.opciones[i].id : i \in 1..Len(preg.opciones)}

\* -------------------------------------------------------- sanitize_answers
\* a sanitizer that reads the identifier under the name pregunta_id only
AliasIdIgnored(item) == item

\* if not item.get("pregunta_id") and item.get("id"):
\*     item["pregunta_id"] = item.pop("id")
AliasId(item) ==
    IF ~TruthyS(item.pregunta_id) /\ TruthyS(item.id)
    THEN [item EXCEPT !.pregunta_id = item.id, !.id = AbsS]
    ELSE item

\* tipo == n, for tipo = item.get("tipo_pregunta_id")
TipoIs(item, n) == item.tipo_pregunta_id.t = "num" /\ item.tipo_pregunta_id.v = n

\* a comparison that trims the answer but keeps its case
EchoesQuestionCaseSensitive(texto, preg) == Strip(texto) = preg.texto

\* tipo 1: a text that repeats the question is removed
EchoesQuestion(texto, preg) == Lower(Strip(texto)) = Lower(preg.texto)

NormTipo1(item, preg) ==
    IF TipoIs(item, 1) /\ TruthyT(item.texto) /\ EchoesQuestion(item.texto.v, preg)
    THEN [item EXCEPT !.texto = NulT]
    ELSE item

\* tipo 2: number only
NormTipo2(item) ==
    IF TipoIs(item, 2) /\ ~IsNone(item.numero)
    THEN [item EXCEPT !.texto = NulT]
    ELSE item

\* tipo 3: the first of opciones_ids becomes opcion_id
NormTipo3(item) ==
    IF ~TipoIs(item, 3) THEN item
    ELSE IF TruthyL(item.opciones_ids)
         THEN [item EXCEPT !.texto = NulT,
                           !.opcion_id = Str(item.opciones_ids.v[1]),
                           !.opciones_ids = Lst(<<>>)]
         ELSE [item EXCEPT !.texto = NulT]

\* a filter that lets every id through
FilterIdsKeepsAll(ids, valid) == ids

\* [oid for oid in ids if oid in valid]
FilterIds(ids, valid) == SelectSeq(ids, LAMBDA oid : oid \in valid)

\* tipo 4: item.get("opciones_ids", []) is iterated; a null is not iterable
Tipo4Raises(item) == TipoIs(item, 4) /\ item.opciones_ids.t = "null"

NormTipo4(item, preg) ==
    IF ~TipoIs(item, 4) THEN item
    ELSE [item EXCEPT !.texto = NulT,
                      !.opciones_ids = Lst(FilterIds(item.opciones_ids.v, ValidIds(preg)))]

\* qid = item.get("pregunta_id"); if not qid: continue
Dropped(item) == ~TruthyS(AliasId(item).pregunta_id)

\* one iteration of the loop body for an entry that is kept
SanitizeItem(item, plant) ==
    LET it0  == AliasId(item)
        preg == MapaGet(plant, it0.pregunta_id)
    IN  NormTipo4(NormTipo3(NormTipo2(NormTipo1(it0, preg))), preg)

ItemRaises(item) == ~Dropped(item) /\ Tipo4Raises(AliasId(item))

\* the loop: dep collects the kept entries in order; an exception ends it
RECURSIVE SanitizeLoop(_, _)
SanitizeLoop(items, plant) ==
    IF items = <<>> THEN [raised |-> FALSE, dep |-> <<>>]
    ELSE LET item == Head(items)
             rest == SanitizeLoop(Tail(items), plant)
         IN  IF ItemRaises(item) THEN [raised |-> TRUE, dep |-> <<>>]
             ELSE IF rest.raised THEN rest
             ELSE IF Dropped(item) THEN rest
             ELSE [raised |-> FALSE, dep |-> <<SanitizeItem(item, plant)>> \o rest.dep]

\* data.get("respuestas_preguntas", []) ; data["respuestas_preguntas"] = dep
sanitize_answers(data, plant) ==
    LET r == SanitizeLoop(data.respuestas_preguntas.v, plant)
    IN  [raised |-> r.raised,
         data   |-> IF r.raised THEN data
                    ELSE [data EXCEPT !.respuestas_preguntas = Lst(r.dep)]]

\* --------------------------------------------------- build_backend_payload
\* base = {"pregunta_id": r["pregunta_id"]} plus texto / numero / opcion_id
\* when present; a field left out of the row is "absent"
BaseRow(r) ==
    [pregunta_id |-> r.pregunta_id,
     texto       |-> IF TruthyT(r.texto) THEN r.texto ELSE AbsT,
     numero      |-> IF ~IsNone(r.numero) /\ r.numero # EmptyStrN THEN r.numero ELSE AbsN,
     opcion_id   |-> IF TruthyS(r.opcion_id) THEN r.opcion_id ELSE AbsS]

\* filas.append({**base, "opcion_id": oid}) for every oid, or filas.append(base)
RowsOf(r) ==
    IF TruthyL(r.opciones_ids)
    THEN [i \in 1..Len(r.opciones_ids.v) |->
             [BaseRow(r) EXCEPT !.opcion_id = Str(r.opciones_ids.v[i])]]
    ELSE <<BaseRow(r)>>

\* r["pregunta_id"] on an entry without the key is a KeyError
RowRaises(r) == r.pregunta_id.t = "absent"

RECURSIVE BuildLoop(_)
BuildLoop(rs) ==
    IF rs = <<>> THEN [raised |-> FALSE, filas |-> <<>>]
    ELSE LET rest == BuildLoop(Tail(rs))
         IN  IF RowRaises(Head(rs)) THEN [raised |-> TRUE, filas |-> <<>>]
             ELSE IF rest.raised THEN rest
             ELSE [raised |-> FALSE, filas |-> RowsOf(Head(rs)) \o rest.filas]

build_backend_payload(res_json) ==
    LET r == BuildLoop(res_json.respuestas_preguntas.v)
    IN  [raised |-> r.raised, payload |-> [respuestas_preguntas |-> r.filas]]

\* ------------------------------------------------------------ upload parts
\* A content type is a text; an upload part that carries no Content-Type
\* header is seen by the handler as None or, with a framework release that
\* defaults the attribute, as the empty string.
NoCT == [t |-> "none", v |-> <<>>]
CT(s) == [t |-> "str", v |-> s]

AudioPrefix == <<"a", "u", "d", "i", "o", "/">>

ContentTypeHeaders ==
    { NoCT,
      CT(<<>>),
      CT(<<"a", "u", "d", "i", "o", "/", "w", "a", "v">>),
      CT(AudioPrefix),
      CT(<<"a", "u", "d", "i", "o">>),
      CT(<<"A", "u", "d", "i", "o", "/", "w", "a", "v">>),
      CT(<<"t", "e", "x", "t", "/", "p", "l", "a", "i", "n">>) }

\* file.content_type for an upload part with the given header
SeenContentTypes(header) == IF header.t = "none" THEN {NoCT, CT(<<>>)} ELSE {header}

\* str.startswith(prefix)
StartsWith(s, prefix) ==
    Len(s) >= Len(prefix) /\ SubSeq(s, 1, Len(prefix)) = prefix

\* A filename is a sequence of tokens, "." being the separator token; an
\* upload part may carry no filename.
NoName == [t |-> "none", v |-> <<>>]
Name(toks) == [t |-> "str", v |-> toks]

Uuid1 == "7b1f0c9e-5a3d-4e2b-9c1a-0d4f6e8a2b10"
UuidTokens == {Uuid1}

Filenames ==
    { NoName,
      Name(<<Uuid1, ".", "wav">>),
      Name(<<Uuid1, ".", "MP3">>),
      Name(<<Uuid1>>),
      Name(<<Uuid1, ".", "v2", ".", "txt">>),
      Name(<<"not-a-uuid", ".", "wav">>),
      Name(<<".", "wav">>) }

\* the index of the first "." of toks, or Len(toks) + 1
RECURSIVE FirstDot(_, _)
FirstDot(toks, i) ==
    IF i > Len(toks) \/ toks[i] = "." THEN i ELSE FirstDot(toks, i + 1)

\* filename.split(".")[0]
Stem(toks) == SubSeq(toks, 1, FirstDot(toks, 1) - 1)

\* uuid.UUID(entrega_id) does not raise
ParsesAsUuid(stem) == Len(stem) = 1 /\ stem[1] \in UuidTokens

\* os.path.splitext(filename)[1]: from the last "." on, unless only dots precede it
LastDot(toks) ==
    LET dots == {i \in 1..Len(toks) : toks[i] = "."}
    IN  IF dots = {} THEN 0 ELSE CHOOSE i \in dots : \A j \in dots : j <= i

SplitExt(toks) ==
    LET d == LastDot(toks)
    IN  IF d = 0 \/ (\A i \in 1..(d - 1) : toks[i] = ".") THEN <<>>
        ELSE SubSeq(toks, d, Len(toks))

LowerTok(tok) == IF tok = "MP3" THEN "mp3" ELSE tok

AudioExts == {"flac", "m4a", "mp3", "mp4", "mpeg", "mpga", "oga", "ogg", "wav", "webm"}

\* _safe_suffix: the extension when it is a known audio format, else ".wav"
safe_suffix(toks) ==
    LET ext == SplitExt(toks)
    IN  IF Len(ext) = 2 /\ LowerTok(ext[2]) \in AudioExts
        THEN <<".", LowerTok(ext[2])>>
        ELSE <<".", "wav">>

\* ------------------------------------------------------- transcribe_openai
\* What can happen inside one call: the temporary file cannot be created,
\* writing it fails, reopening it fails, the provider fails, all succeed.
TranscribeOutcomes ==
    {"create_fails", "write_fails", "open_fails", "provider_fails", "ok"}

ProviderTexts == {<<>>, <<"a">>, <<" ", "a">>}

\* state of the temporary file when the call is over.  The file is created
\* with delete=False; os.remove runs in the finally of the try block, which
\* starts after the file has been written.
TmpAfter(outcome) ==
    CASE outcome = "create_fails" -> "none"
      [] outcome = "write_fails"  -> "exists"
      [] OTHER                    -> "removed"

NoTmp == [state |-> "none", suffix |-> <<>>]

transcribe_openai(filename, outcome, text) ==
    IF filename.t = "none"
    THEN [raised |-> TRUE, tmp |-> NoTmp, text |-> <<>>, called |-> FALSE]
    ELSE [raised |-> outcome # "ok",
          tmp    |-> IF outcome = "create_fails" THEN NoTmp
                     ELSE [state |-> TmpAfter(outcome), suffix |-> safe_suffix(filename.v)],
          text   |-> IF outcome = "ok" THEN Strip(text) ELSE <<>>,
          called |-> outcome \in {"provider_fails", "ok"}]

\* ------------------------------------------------------- inputs, pipeline
Item(id, pid, tipo, texto, numero, opcion, opciones) ==
    [id |-> id, pregunta_id |-> pid, tipo_pregunta_id |-> tipo, texto |-> texto,
     numero |-> numero, opcion_id |-> opcion, opciones_ids |-> opciones]

Pregunta(id, texto, tipo, opciones) ==
    [id |-> id, texto |-> texto, tipo_pregunta_id |-> tipo,
     opciones |-> [i \in 1..Len(opciones) |-> [id |-> opciones[i]]]]

Data(items) == [respuestas_preguntas |-> Lst(items)]
NoKeyData   == [respuestas_preguntas |-> AbsL]
NoPlantilla == [preguntas |-> <<>>]
NoPayload   == [respuestas_preguntas |-> <<>>]

\* templates the backend may return and answers the language model may give
PipeTemplates ==
    { [preguntas |-> <<Pregunta("Q1", <<"a">>, 4, <<"O1", "O2">>)>>],
      [preguntas |-> <<Pregunta("Q1", <<"a">>, 1, <<>>),
                       Pregunta("Q2", <<"A", " ">>, 3, <<"O1">>)>>] }

PipeRaws ==
    { NoKeyData,
      Data(<<>>),
      Data(<<Item(AbsS, Str("Q1"), Num(4), NulT, NulN, NulS, Lst(<<"O2", "O9", "O1">>))>>),
      Data(<<Item(AbsS, Str("Q1"), Num(4), NulT, NulN, NulS, NulL)>>),
      Data(<<Item(Str("Q1"), AbsS, Num(1), Txt(<<"A">>), Num(0), NulS, Lst(<<>>))>>),
      Data(<<Item(AbsS, Str("Q2"), Num(3), Txt(<<"a">>), NulN, NulS, Lst(<<"O1">>)),
             Item(AbsS, Str("Q9"), Num(2), Txt(<<"a">>), Num(5), AbsS, AbsL),
             Item(AbsS, NulS, Num(1), Txt(<<"a">>), NulN, NulS, Lst(<<>>))>>) }

\* outcomes of requests.get / requests.post
HttpOutcomes(statuses) ==
    { [kind |-> "exception", status |-> 0, json |-> FALSE, reason |-> r] :
          r \in {"ConnectionError", "Timeout"} }
    \cup { [kind |-> "response", status |-> st, json |-> j, reason |-> ""] :
          st \in statuses, j \in BOOLEAN }

FetchStatuses  == {200, 204, 404, 503}
SubmitStatuses == {200, 201, 300, 404, 500}

\* ------------------------------------------------------------------- state
VARIABLES
    pc,               \* position of the request in its handler
    endpoint,         \* "stt", "whisper-test" or "none"
    upload,           \* the uploaded part: header, content_type, filename
    calls,            \* the external calls made so far, in order
    tmp,              \* the transcriber's temporary file
    plantilla,        \* the template fetched for the request
    transcript,
    raw_json,         \* the extractor's parsed answer
    ocr_json,         \* sanitize_answers' result
    backend_payload,  \* build_backend_payload's result
    response,         \* what the client receives
    last              \* the last step taken and what the outside world answered

vars == <<pc, endpoint, upload, calls, tmp, plantilla, transcript, raw_json,
          ocr_json, backend_payload, response, last>>

NoUpload   == [header |-> NoCT, content_type |-> NoCT, filename |-> NoName]
NoOutcome  == [step |-> "none", kind |-> "none", status |-> 0, json |-> FALSE, reason |-> ""]
Outcome(step, o) ==
    [step |-> step, kind |-> o.kind, status |-> o.status, json |-> o.json, reason |-> o.reason]
LocalOutcome(step, kind) == [NoOutcome EXCEPT !.step = step, !.kind = kind]
NoBackend  == [t |-> "none", error |-> "", payload_enviado |-> NoPayload, reply |-> ""]
NoResponse ==
    [kind |-> "none", status |-> 0, detail |-> "", entrega_id |-> "",
     filename |-> NoName, transcripcion |-> <<>>, payload_enviado |-> NoPayload,
     respuesta_backend |-> NoBackend]

\* raise HTTPException(status, detail), or an exception no one handles (500)
ErrorResponse(status, detail) ==
    [NoResponse EXCEPT !.kind = "error", !.status = status, !.detail = detail]

Unhandled == ErrorResponse(500, "Internal Server Error")

Init ==
    /\ pc = "idle"
    /\ endpoint = "none"
    /\ upload = NoUpload
    /\ calls = <<>>
    /\ tmp = NoTmp
    /\ plantilla = NoPlantilla
    /\ transcript = <<>>
    /\ raw_json = NoKeyData
    /\ ocr_json = NoKeyData
    /\ backend_payload = NoPayload
    /\ response = NoResponse
    /\ last = NoOutcome

\* if not file.content_type.startswith("audio/"): raise HTTPException(400, ...)
CheckContentType(ct) ==
    IF ct.t = "none" THEN Unhandled
    ELSE IF ~StartsWith(ct.v, AudioPrefix) THEN ErrorResponse(400, "Sube un archivo de audio")
    ELSE NoResponse

\* entrega_id = file.filename.split(".")[0]; uuid.UUID(entrega_id), any
\* exception (a missing filename included) becoming a 400
CheckFilename(fn) ==
    IF fn.t = "none" \/ ~ParsesAsUuid(Stem(fn.v))
    THEN ErrorResponse(400, "El archivo debe llamarse <entrega_id>.wav/.mp3/etc")
    ELSE NoResponse

EntregaId(fn) == Stem(fn.v)[1]

\* stt_endpoint, up to the template fetch
SttValidate ==
    /\ pc = "idle"
    /\ \E h \in ContentTypeHeaders, fn \in Filenames :
         \E ct \in SeenContentTypes(h) :
            LET r1 == CheckContentType(ct)
                r2 == IF r1.kind = "error" THEN r1 ELSE CheckFilename(fn)
            IN  /\ upload' = [header |-> h, content_type |-> ct, filename |-> fn]
                /\ response' = r2
                /\ pc' = IF r2.kind = "error" THEN "done" ELSE "fetch"
    /\ endpoint' = "stt"
    /\ UNCHANGED <<calls, tmp, plantilla, transcript, raw_json, ocr_json,
                   backend_payload, last>>

\* a fetch that takes any reply for a template
FetchResultNoStatusCheck(o, body) ==
    IF o.kind = "exception" THEN Unhandled ELSE NoResponse

\* fetch_plantilla, then plantilla["preguntas"]
FetchResult(o, body) ==
    IF o.kind = "exception" THEN Unhandled
    ELSE IF o.status # 200 THEN ErrorResponse(o.status, "Backend no devolvio plantilla")
    ELSE IF ~o.json THEN Unhandled
    ELSE IF body = "no_preguntas" THEN Unhandled
    ELSE NoResponse

SttFetch ==
    /\ pc = "fetch"
    /\ \E o \in HttpOutcomes(FetchStatuses), body \in {"no_preguntas", "plantilla"},
          p \in PipeTemplates :
         LET r == FetchResult(o, body)
         IN  /\ last' = Outcome("fetch", o)
             /\ response' = r
             /\ plantilla' = IF r.kind = "error" THEN NoPlantilla ELSE p
             /\ pc' = IF r.kind = "error" THEN "done" ELSE "transcribe"
    /\ calls' = Append(calls, "fetch")
    /\ UNCHANGED <<endpoint, upload, tmp, transcript, raw_json, ocr_json, backend_payload>>

\* transcript = transcribe_openai(audio_bytes, file.filename)
SttTranscribe ==
    /\ pc = "transcribe"
    /\ \E o \in TranscribeOutcomes, text \in ProviderTexts :
         LET r == transcribe_openai(upload.filename, o, text)
         IN  /\ tmp' = r.tmp
             /\ transcript' = r.text
             /\ calls' = IF r.called THEN Append(calls, "transcribe") ELSE calls
             /\ response' = IF r.raised THEN Unhandled ELSE response
             /\ pc' = IF r.raised THEN "done" ELSE "extract"
             /\ last' = LocalOutcome("transcribe", o)
    /\ UNCHANGED <<endpoint, upload, plantilla, raw_json, ocr_json, backend_payload>>

\* openai_client.chat.completions.create, json.loads, sanitize_answers and
\* build_backend_payload: the handler from the prompt to the submission
ExtractOutcomes == {"provider_fails", "not_json", "json"}

ExtractResult(o, raw, plant) ==
    LET san == sanitize_answers(raw, plant)
        bld == build_backend_payload(san.data)
    IN  IF o = "provider_fails" THEN Unhandled
        ELSE IF o = "not_json" THEN ErrorResponse(500, "GPT no devolvio JSON valido")
        ELSE IF san.raised \/ bld.raised THEN Unhandled
        ELSE NoResponse

SttExtract ==
    /\ pc = "extract"
    /\ \E o \in ExtractOutcomes, raw \in PipeRaws :
         LET r   == ExtractResult(o, raw, plantilla)
             ok  == r.kind # "error"
             san == sanitize_answers(raw, plantilla)
         IN  /\ response' = r
             /\ pc' = IF ok THEN "submit" ELSE "done"
             /\ raw_json' = IF o = "json" THEN raw ELSE NoKeyData
             /\ ocr_json' = IF ok THEN san.data ELSE NoKeyData
             /\ backend_payload' = IF ok THEN build_backend_payload(san.data).payload
                                   ELSE NoPayload
             /\ last' = LocalOutcome("extract", o)
    /\ calls' = Append(calls, "extract")
    /\ UNCHANGED <<endpoint, upload, tmp, plantilla, transcript>>

\* a status check that lets client errors through
RaisesForServerErrorOnly(status) == 500 <= status /\ status < 600

\* resp.raise_for_status() raises for a 4xx or 5xx status only
RaisesForStatus(status) == 400 <= status /\ status < 600

\* requests.post(...); resp.raise_for_status(); resp.json() raised
SubmitFails(o) ==
    o.kind = "exception" \/ RaisesForStatus(o.status) \/ ~o.json

SubmitReason(o) ==
    IF o.kind = "exception" THEN o.reason
    ELSE IF RaisesForStatus(o.status) THEN "HTTPError"
    ELSE "JSONDecodeError"

\* backend_resp: the reply, or {"error": str(exc), "payload_enviado": backend_payload}
BackendResp(o, payload) ==
    IF SubmitFails(o)
    THEN [t |-> "error", error |-> SubmitReason(o), payload_enviado |-> payload, reply |-> ""]
    ELSE [t |-> "reply", error |-> "", payload_enviado |-> NoPayload, reply |-> "json"]

\* the JSONResponse that ends stt_endpoint
SttResponse(fn, text, payload, backend_resp) ==
    [NoResponse EXCEPT !.kind = "json", !.status = 200,
                       !.entrega_id = EntregaId(fn),
                       !.transcripcion = text,
                       !.payload_enviado = payload,
                       !.respuesta_backend = backend_resp]

SttSubmit ==
    /\ pc = "submit"
    /\ \E o \in HttpOutcomes(SubmitStatuses) :
         /\ last' = Outcome("submit", o)
         /\ response' = SttResponse(upload.filename, transcript, backend_payload,
                                    BackendResp(o, backend_payload))
    /\ calls' = Append(calls, "submit")
    /\ pc' = "done"
    /\ UNCHANGED <<endpoint, upload, tmp, plantilla, transcript, raw_json, ocr_json,
                   backend_payload>>

\* whisper_test: the content-type check, then the transcription inside
\* try/except
WhisperResponse(fn, text) ==
    [NoResponse EXCEPT !.kind = "json", !.status = 200, !.filename = fn,
                       !.transcripcion = text]

WhisperTest ==
    /\ pc = "idle"
    /\ \E h \in ContentTypeHeaders, fn \in Filenames :
         \E ct \in SeenContentTypes(h) :
            LET r1 == CheckContentType(ct)
            IN  /\ upload' = [header |-> h, content_type |-> ct, filename |-> fn]
                /\ response' = r1
                /\ pc' = IF r1.kind = "error" THEN "done" ELSE "w_transcribe"
    /\ endpoint' = "whisper-test"
    /\ UNCHANGED <<calls, tmp, plantilla, transcript, raw_json, ocr_json,
                   backend_payload, last>>

WhisperTranscribe ==
    /\ pc = "w_transcribe"
    /\ \E o \in TranscribeOutcomes, text \in ProviderTexts :
         LET r == transcribe_openai(upload.filename, o, text)
         IN  /\ tmp' = r.tmp
             /\ transcript' = r.text
             /\ calls' = IF r.called THEN Append(calls, "transcribe") ELSE calls
             /\ response' = IF r.raised THEN ErrorResponse(500, "Error transcribiendo")
                            ELSE WhisperResponse(upload.filename, r.text)
             /\ last' = LocalOutcome("transcribe", o)
    /\ pc' = "done"
    /\ UNCHANGED <<endpoint, upload, plantilla, raw_json, ocr_json, backend_payload>>

Next ==
    \/ SttValidate
    \/ SttFetch
    \/ SttTranscribe
    \/ SttExtract
    \/ SttSubmit
    \/ WhisperTest
    \/ WhisperTranscribe

Spec == Init /\ [][Next]_vars

\* ============================================================ the pipeline
PipelineOrder == <<"fetch", "transcribe", "extract", "submit">>

IsPrefix(s, t) == Len(s) <= Len(t) /\ s = SubSeq(t, 1, Len(s))

\* the step just taken failed before the submission: the template fetch
\* (exception, status other than 200, body that is not JSON), the
\* transcription, or the extraction (provider call or JSON parse)
UpstreamFailed ==
    \/ last.step = "fetch" /\ (last.kind = "exception" \/ last.status # 200 \/ ~last.json)
    \/ last.step = "transcribe" /\ last.kind # "ok"
    \/ last.step = "extract" /\ last.kind \in {"provider_fails", "not_json"}

\* C1: in POST /stt the external calls happen in the order template fetch,
\* transcription, extraction, submission, each at most once, and when the
\* fetch, the transcription or the extraction fails the request ends with an
\* error response and the submission is never made.
C1_SequentialNoRetry ==
    endpoint = "stt" =>
        /\ IsPrefix(calls, PipelineOrder)
        /\ UpstreamFailed =>
              /\ pc = "done"
              /\ response.kind = "error"
              /\ response.status # 200
              /\ \A i \in 1..Len(calls) : calls[i] # "submit"

\* a request whose extraction returned text that is not JSON, after the
\* fetch and the transcription succeeded
C1_Witness ==
    /\ endpoint = "stt"
    /\ pc = "done"
    /\ calls = <<"fetch", "transcribe", "extract">>
    /\ last.step = "extract" /\ last.kind = "not_json"
    /\ response.status = 500

\* the submission was made and requests raised: no connection, a timeout, a
\* 4xx or 5xx status, or a reply body that is not JSON
SubmitRaised ==
    /\ last.step = "submit"
    /\ \/ last.kind = "exception"
       \/ (400 <= last.status /\ last.status < 600)
       \/ ~last.json

\* the response is a 200 whose respuesta_backend holds the failure reason and
\* the attempted payload, the same payload as payload_enviado and as the one
\* built from the sanitized answers
FailureReportedInline ==
    /\ response.kind = "json"
    /\ response.status = 200
    /\ response.respuesta_backend.t = "error"
    /\ response.respuesta_backend.error # ""
    /\ response.respuesta_backend.payload_enviado = backend_payload
    /\ response.payload_enviado = backend_payload
    /\ backend_payload
         = build_backend_payload(sanitize_answers(raw_json, plantilla).data).payload

\* C2 (as amended): a submission that fails by a network error, a timeout, a
\* 4xx or 5xx status or a reply that is not JSON is not propagated: the
\* response is 200 and reports the reason and the attempted payload inline.
C2_SubmitFailureSwallowed ==
    (endpoint = "stt" /\ pc = "done" /\ SubmitRaised) => FailureReportedInline

\* a submission answered 404 for a payload with rows
C2_Witness ==
    /\ endpoint = "stt" /\ pc = "done"
    /\ last.step = "submit" /\ last.kind = "response" /\ last.status = 404
    /\ backend_payload.respuestas_preguntas # <<>>
    /\ response.respuesta_backend.t = "error"

\* C2 (as claimed): every non-2xx status counts as a failure reported inline.
C2_AsClaimed ==
    (/\ endpoint = "stt" /\ pc = "done" /\ last.step = "submit"
     /\ (last.kind = "exception" \/ last.status < 200 \/ last.status >= 300))
        => FailureReportedInline

\* the upload is not audio (no content type at all included) or its name
\* does not start with a UUID
BadUpload ==
    \/ upload.header.t = "none"
    \/ ~StartsWith(upload.header.v, AudioPrefix)
    \/ upload.filename.t = "none"
    \/ ~ParsesAsUuid(Stem(upload.filename.v))

\* C3: such an upload to POST /stt is answered 400 and no external call is made.
C3_BadUploadIs400 ==
    (endpoint = "stt" /\ BadUpload) =>
        /\ pc = "done"
        /\ response.status = 400
        /\ calls = <<>>

\* C4: once the Transcriber has returned or raised, the temporary file it
\* created no longer exists.
C4_TmpFileReleased ==
    last.step = "transcribe" => tmp.state # "exists"

\* =========================================== sanitizer and payload builder
\* sanitize_answers and build_backend_payload applied to bounded inputs
Texts     == SeqsUpTo(Chars, MaxTextLen)
TextoVals == {AbsT, NulT} \cup {Txt(x) : x \in Texts}
TipoVals  == {AbsN, NulN} \cup {Num(n) : n \in 1..5}
IdLists   == {AbsL, NulL} \cup {Lst(l) : l \in SeqsUpTo({"O1", "O2", "O9"}, MaxIds)}

\* one free-text question with every text, one answer with every text
TextInputs ==
    { [plant |-> [preguntas |-> <<Pregunta("Q1", q, 1, <<"O1", "O2">>)>>],
       data  |-> Data(<<Item(AbsS, Str("Q1"), tipo, texto, numero, AbsS, AbsL)>>)] :
         q \in Texts, tipo \in {NulN, Num(1), Num(2), Num(3), Num(4)},
         texto \in TextoVals, numero \in {AbsN, Num(0)} }

\* one multi-choice question with each option set, one answer with every
\* combination of type tag, number, option and option list
ChoiceInputs ==
    { [plant |-> [preguntas |-> <<Pregunta("Q1", <<"a">>, 4, ops)>>],
       data  |-> Data(<<Item(AbsS, pid, tipo, texto, numero, opcion, opciones)>>)] :
         ops \in {<<>>, <<"O1">>, <<"O1", "O2">>},
         pid \in {Str("Q1"), Str("Q9")}, tipo \in TipoVals,
         texto \in {AbsT, NulT, Txt(<<"a">>)},
         numero \in {AbsN, NulN, EmptyStrN, Num(0)},
         opcion \in {AbsS, NulS, Str("O2")}, opciones \in IdLists }

\* lists of answers, with the identifier under either name, under none, empty
ListAnswers ==
    { Item(AbsS, Str("Q1"), Num(4), NulT, NulN, NulS, Lst(<<"O2", "O9">>)),
      Item(AbsS, Str("Q1"), Num(4), NulT, NulN, NulS, Lst(<<>>)),
      Item(Str("Q2"), AbsS, Num(1), Txt(<<"a">>), NulN, NulS, Lst(<<>>)),
      Item(Str("Q2"), NulS, Num(2), NulT, Num(5), NulS, AbsL),
      Item(Str("Q1"), Str(""), Num(3), AbsT, AbsN, AbsS, Lst(<<"O1", "O2">>)),
      Item(Str("Q1"), Str("Q9"), Num(4), NulT, NulN, NulS, Lst(<<"O1">>)),
      Item(NulS, NulS, Num(1), Txt(<<"a">>), NulN, NulS, Lst(<<>>)),
      Item(AbsS, AbsS, AbsN, AbsT, AbsN, AbsS, AbsL) }

ListInputs ==
    { [plant |-> [preguntas |-> <<Pregunta("Q1", <<"a">>, 4, <<"O1", "O2">>),
                                  Pregunta("Q2", <<"a">>, 1, <<>>)>>],
       data  |-> d] :
         d \in {NoKeyData} \cup {Data(l) : l \in SeqsUpTo(ListAnswers, MaxAnswers)} }

SanInputs == TextInputs \cup ChoiceInputs \cup ListInputs

InitSan ==
    /\ pc = "san_input"
    /\ \E in \in SanInputs : plantilla = in.plant /\ raw_json = in.data
    /\ endpoint = "none"
    /\ upload = NoUpload
    /\ calls = <<>>
    /\ tmp = NoTmp
    /\ transcript = <<>>
    /\ ocr_json = NoKeyData
    /\ backend_payload = NoPayload
    /\ response = NoResponse
    /\ last = NoOutcome

\* ocr_json = sanitize_answers(raw_json, plantilla)
Sanitize ==
    /\ pc = "san_input"
    /\ LET r == sanitize_answers(raw_json, plantilla)
       IN  /\ pc' = IF r.raised THEN "san_raised" ELSE "sanitized"
           /\ ocr_json' = IF r.raised THEN ocr_json ELSE r.data
    /\ UNCHANGED <<endpoint, upload, calls, tmp, plantilla, transcript, raw_json,
                   backend_payload, response, last>>

\* backend_payload = build_backend_payload(ocr_json)
Build ==
    /\ pc = "sanitized"
    /\ LET r == build_backend_payload(ocr_json)
       IN  /\ pc' = IF r.raised THEN "build_raised" ELSE "built"
           /\ backend_payload' = IF r.raised THEN backend_payload ELSE r.payload
    /\ UNCHANGED <<endpoint, upload, calls, tmp, plantilla, transcript, raw_json,
                   ocr_json, response, last>>

\* build_backend_payload given a list of answers that was not sanitized
BuildDirect ==
    /\ pc = "san_input"
    /\ LET r == build_backend_payload(raw_json)
       IN  /\ pc' = IF r.raised THEN "direct_raised" ELSE "direct_built"
           /\ backend_payload' = IF r.raised THEN backend_payload ELSE r.payload
    /\ UNCHANGED <<endpoint, upload, calls, tmp, plantilla, transcript, raw_json,
                   ocr_json, response, last>>

NextSan ==
    \/ Sanitize
    \/ Build
    \/ BuildDirect

SpecSan == InitSan /\ [][NextSan]_vars

\* ------------------------------------------------------ claims, sanitizer
RawItems == raw_json.respuestas_preguntas.v
OcrItems == ocr_json.respuestas_preguntas.v
Rows     == backend_payload.respuestas_preguntas

\* the identifier of a raw answer: pregunta_id, or else id
ResolvedId(item) == IF TruthyS(item.pregunta_id) THEN item.pregunta_id ELSE item.id

\* the raw answers that carry an identifier, in order
KeptRaw == SelectSeq(RawItems, LAMBDA it : TruthyS(ResolvedId(it)))

\* the question of the template with the given identifier
HasQuestion(qid) == \E i \in 1..Len(plantilla.preguntas) : plantilla.preguntas[i].id = qid.v
Question(qid) ==
    plantilla.preguntas[CHOOSE i \in 1..Len(plantilla.preguntas) :
                           plantilla.preguntas[i].id = qid.v]
OptionIds(q) == {q.opciones[i].id : i \in 1..Len(q.opciones)}

\* every field of every raw answer is absent, null or of its documented kind
DocumentedKinds ==
    \A i \in 1..Len(RawItems) :
        /\ RawItems[i].numero.t \in {"absent", "null", "num"}
        /\ RawItems[i].tipo_pregunta_id.t \in {"absent", "null", "num"}
        /\ RawItems[i].texto.t \in {"absent", "null", "str"}
        /\ RawItems[i].opciones_ids.t \in {"absent", "null", "list"}

\* C5: sanitize_answers followed by build_backend_payload never raises on a
\* response whose answer fields are absent, null or of their documented kind.
C5_NeverRaises ==
    DocumentedKinds => pc \notin {"san_raised", "build_raised"}

\* which of the four answer fields are active
ActiveFields(e) ==
    {k \in 1..4 :
        \/ k = 1 /\ e.texto.t = "str" /\ e.texto.v # <<>>
        \/ k = 2 /\ e.numero.t = "num"
        \/ k = 3 /\ e.opcion_id.t = "str" /\ e.opcion_id.v # ""
        \/ k = 4 /\ e.opciones_ids.t = "list" /\ e.opciones_ids.v # <<>>}

\* C6: every entry the Sanitizer returns for a question of type 1..4 has no
\* field active but the one of that type: the other three are cleared,
\* whatever the raw answer carried in them.
C6_ExactlyOneActive ==
    pc = "sanitized" =>
        \A i \in 1..Len(OcrItems) :
            LET e == OcrItems[i]
            IN  (HasQuestion(e.pregunta_id)
                 /\ e.tipo_pregunta_id = Num(Question(e.pregunta_id).tipo_pregunta_id))
                    => ActiveFields(e) \subseteq {Question(e.pregunta_id).tipo_pregunta_id}

\* C7: every row the Payload Builder emits has the question id and at most
\* one of texto, numero, opcion_id.
C7_AtMostOneField ==
    pc \in {"built", "direct_built"} =>
        \A i \in 1..Len(Rows) :
            Cardinality({f \in {"texto", "numero", "opcion_id"} : Rows[i][f].t # "absent"}) <= 1

\* C8 (as claimed): every entry the Sanitizer returns, and so every row, has
\* a question id that exists in the template.
C8_AsClaimed ==
    /\ pc = "sanitized" => \A i \in 1..Len(OcrItems) : HasQuestion(OcrItems[i].pregunta_id)
    /\ pc = "built" => \A i \in 1..Len(Rows) : HasQuestion(Rows[i].pregunta_id)

\* C8 (as amended): the entries returned are the raw answers that carry an
\* identifier under pregunta_id or id, in order, each with that identifier as
\* a non-empty pregunta_id, whether or not the template has the question;
\* every row carries the identifier of one of them.
C8_OnlyIdlessDropped ==
    /\ pc \in {"sanitized", "built"} =>
          /\ Len(OcrItems) = Len(KeptRaw)
          /\ \A i \in 1..Len(OcrItems) :
                /\ OcrItems[i].pregunta_id = ResolvedId(KeptRaw[i])
                /\ OcrItems[i].pregunta_id.t = "str" /\ OcrItems[i].pregunta_id.v # ""
    /\ pc = "built" =>
          \A i \in 1..Len(Rows) :
              \E j \in 1..Len(OcrItems) : Rows[i].pregunta_id = OcrItems[j].pregunta_id

\* a row submitted for a question the template does not have, next to the
\* drop of an answer without identifier
C8_Witness ==
    /\ pc = "built"
    /\ \E i \in 1..Len(Rows) : ~HasQuestion(Rows[i].pregunta_id)
    /\ Len(OcrItems) < Len(RawItems)

RECURSIVE IsSubseq(_, _)
IsSubseq(a, b) ==
    IF a = <<>> THEN TRUE
    ELSE IF b = <<>> THEN FALSE
    ELSE IF Head(a) = Head(b) THEN IsSubseq(Tail(a), Tail(b))
    ELSE IsSubseq(a, Tail(b))

AllMulti == \A i \in 1..Len(OcrItems) : OcrItems[i].tipo_pregunta_id = Num(4)

\* the normalized list of every multi-choice entry is a subsequence of the
\* raw list and holds declared option ids only
MultiListsFiltered ==
    \A i \in 1..Len(OcrItems) :
        OcrItems[i].tipo_pregunta_id = Num(4) =>
            /\ OcrItems[i].opciones_ids.t = "list"
            /\ IsSubseq(OcrItems[i].opciones_ids.v, KeptRaw[i].opciones_ids.v)
            /\ \A k \in 1..Len(OcrItems[i].opciones_ids.v) :
                  /\ HasQuestion(OcrItems[i].pregunta_id)
                  /\ OcrItems[i].opciones_ids.v[k] \in OptionIds(Question(OcrItems[i].pregunta_id))

RECURSIVE SumLens(_, _)
SumLens(items, least) ==
    IF items = <<>> THEN 0
    ELSE (IF Len(Head(items).opciones_ids.v) < least THEN least
          ELSE Len(Head(items).opciones_ids.v))
         + SumLens(Tail(items), least)

\* C9 (as claimed): the rows emitted for a multi-choice answer are as many
\* as the ids of its normalized list, an empty list included.
C9_AsClaimed ==
    /\ pc \in {"sanitized", "built"} => MultiListsFiltered
    /\ (pc = "built" /\ AllMulti) => Len(Rows) = SumLens(OcrItems, 0)

\* C9 (as amended): the normalized list is an order-preserving subsequence
\* of the raw list with declared option ids only; the rows emitted for the
\* answer are as many as the ids of the normalized list when it is not
\* empty, and exactly one row when it is empty.
C9_RowsPerMultiChoice ==
    /\ pc \in {"sanitized", "built"} => MultiListsFiltered
    /\ (pc = "built" /\ AllMulti) => Len(Rows) = SumLens(OcrItems, 1)

\* a multi-choice answer that lost an undeclared id and kept one, one row
C9_Witness ==
    /\ pc = "built"
    /\ Len(OcrItems) = 1 /\ AllMulti
    /\ Len(RawItems[1].opciones_ids.v) = 2
    /\ Len(OcrItems[1].opciones_ids.v) = 1
    /\ Len(Rows) = 1

EmptyText(x) == x.t \in {"absent", "null"} \/ x.v = <<>>

\* a free-text raw answer (position i of the kept ones) for a question of
\* the template
FreeTextAnswer(i) ==
    /\ KeptRaw[i].tipo_pregunta_id = Num(1)
    /\ KeptRaw[i].texto.t = "str"
    /\ HasQuestion(ResolvedId(KeptRaw[i]))

QuestionText(i) == Question(ResolvedId(KeptRaw[i])).texto

\* C10 (as claimed): a free-text answer that equals the question's text, case
\* and surrounding whitespace of both ignored, is normalized to an empty text.
C10_AsClaimed ==
    pc = "sanitized" =>
        \A i \in 1..Len(OcrItems) :
            (FreeTextAnswer(i)
             /\ Lower(Strip(KeptRaw[i].texto.v)) = Lower(Strip(QuestionText(i))))
                => EmptyText(OcrItems[i].texto)

\* C10 (as amended): the same for every question text that has no leading
\* or trailing whitespace of its own; for a question text that has some, the
\* answer's text is returned as given.
C10_EchoCleared ==
    pc = "sanitized" =>
        \A i \in 1..Len(OcrItems) :
            FreeTextAnswer(i) =>
                /\ (/\ Strip(QuestionText(i)) = QuestionText(i)
                    /\ Lower(Strip(KeptRaw[i].texto.v)) = Lower(QuestionText(i)))
                       => EmptyText(OcrItems[i].texto)
                /\ Strip(QuestionText(i)) # QuestionText(i)
                       => OcrItems[i].texto = KeptRaw[i].texto

\* an answer that differs from the question in case and whitespace, cleared
C10_Witness ==
    /\ pc = "sanitized"
    /\ Len(OcrItems) = 1
    /\ FreeTextAnswer(1)
    /\ KeptRaw[1].texto.v = <<"A", " ">>
    /\ QuestionText(1) = <<"a">>
    /\ OcrItems[1].texto = NulT

=============================================================================
